---- MODULE Spec2Model ----
(***************************************************************************)
(* The confirmation pipeline of rust-uniswap-example (src/main.rs): the    *)
(* header loop, the pending-block buffer, the confirmation sweep and the   *)
(* swap-log decoder.                                                       *)
(*                                                                         *)
(* Scaling.  A 32-byte word is modelled as a WordBits-bit word, an address *)
(* as its AddrBits low-order bits.  A block hash is the pair               *)
(* <<number, variant>>: the hash commits to the block, so the logs that a  *)
(* hash-scoped log query returns are a function of the hash (LogsOf).      *)
(***************************************************************************)
EXTENDS Integers, Sequences, FiniteSets, TLC

\* ---------------------------------------------------------------- bounds
MaxNum == 11        \* header numbers are drawn from 0..MaxNum
MaxHeaders == 4     \* stream items delivered before the model stops feeding
WordBits == 8       \* width of a topic / data word (256 in the program)
AddrBits == 5       \* width of an address (160 in the program)
MaxAmount == 120    \* amounts rendered are drawn from -MaxAmount..MaxAmount
MaxDecimals == 2    \* decimal counts are drawn from 0..MaxDecimals (18 and 6 in the program)
MaxSide == 2        \* amounts classified are drawn from -MaxSide..MaxSide

\* ------------------------------------------------------ program constants
ConfirmationDepth == 5
MinTopics == 3
AbiInts == 2
Ten == 10

Variants == {1, 2}
Nums == 0..MaxNum

WordModulus == 2 ^ WordBits
SignBit == 2 ^ (WordBits - 1)
AddrModulus == 2 ^ AddrBits

\* Option<T> and Result<T>
None == [some |-> FALSE]
Some(v) == [some |-> TRUE, val |-> v]
Err == [ok |-> FALSE]
Ok(v) == [ok |-> TRUE, val |-> v]

\* ----------------------------------------------------------- AmountCodec
ethereum_int_to_bigint_boundary_positive(value) ==
    IF value > SignBit THEN value - WordModulus ELSE value

\* two's-complement word -> signed integer
ethereum_int_to_bigint(value) ==
    IF value >= SignBit THEN value - WordModulus ELSE value

\* the word that encodes the signed integer x
Enc(x) == IF x < 0 THEN x + WordModulus ELSE x

\* a string is the sequence of its characters
DigitChars == <<"0", "1", "2", "3", "4", "5", "6", "7", "8", "9">>

\* BigInt::to_string of a non-negative value
RECURSIVE NatToString(_)
NatToString(n) ==
    IF n < Ten THEN <<DigitChars[n + 1]>>
    ELSE NatToString(n \div Ten) \o <<DigitChars[(n % Ten) + 1]>>

\* BigInt::to_string
to_string(x) == IF x < 0 THEN <<"-">> \o NatToString(-x) ELSE NatToString(x)

\* str::trim_end_matches('0')
RECURSIVE trim_end_matches_zero(_)
trim_end_matches_zero(str) ==
    IF str # <<>> /\ str[Len(str)] = "0"
    THEN trim_end_matches_zero(SubSeq(str, 1, Len(str) - 1))
    ELSE str

\* Integer::div_rem: the quotient truncates toward zero, the remainder has
\* the sign of the dividend
div_rem(a, b) ==
    LET q == IF a < 0 THEN -((-a) \div b) ELSE a \div b
    IN  <<q, a - (q * b)>>

abs(x) == IF x < 0 THEN -x ELSE x

convert_amount_always_fraction(amount, decimals) ==
    LET qr == div_rem(amount, Ten ^ decimals)
    IN  to_string(qr[1]) \o <<".">> \o trim_end_matches_zero(to_string(abs(qr[2])))

\* fixed-point amount -> decimal string
convert_amount(amount, decimals) ==
    LET factor == Ten ^ decimals
        qr == div_rem(amount, factor)
        quotient == qr[1]
        remainder == qr[2]
    IN  IF remainder = 0 THEN to_string(quotient)
        ELSE to_string(quotient) \o <<".">>
                 \o trim_end_matches_zero(to_string(abs(remainder)))

direction_zero_included(amount0, amount1) ==
    IF amount0 >= 0 /\ amount1 <= 0 THEN "DAI -> USDC"
    ELSE IF amount0 <= 0 /\ amount1 >= 0 THEN "USDC -> DAI"
    ELSE "Unknown"

\* the direction print_swap_events gives an event
direction(amount0, amount1) ==
    IF amount0 > 0 /\ amount1 < 0 THEN "DAI -> USDC"
    ELSE IF amount0 < 0 /\ amount1 > 0 THEN "USDC -> DAI"
    ELSE "Unknown"

\* ---------------------------------------------------------- EventDecoder
\* H160::from_slice(&topic.as_bytes()[12..]): the low-order bytes of a word
AddressOf(word) == word % AddrModulus

SwapEvent(s, r, a0, a1) == [sender |-> s, receiver |-> r, amount0 |-> a0, amount1 |-> a1]

\* ethabi::decode(&[Int(256), Int(256)], data): one word is read per
\* parameter at increasing offsets; it fails when the data is too short and
\* ignores what follows the last parameter.
AbiDecodes(data) == Len(data) >= AbiInts

decode_swap_event_short_data_as_zero(log) ==
    IF Len(log.topics) < MinTopics THEN None
    ELSE Some(SwapEvent(AddressOf(log.topics[2]), AddressOf(log.topics[3]),
                        IF Len(log.data) >= 1 THEN ethereum_int_to_bigint(log.data[1]) ELSE 0,
                        IF Len(log.data) >= 2 THEN ethereum_int_to_bigint(log.data[2]) ELSE 0))

decode_swap_event(log) ==
    IF Len(log.topics) < MinTopics THEN None
    ELSE IF ~AbiDecodes(log.data) THEN None
    ELSE Some(SwapEvent(AddressOf(log.topics[2]), AddressOf(log.topics[3]),
                        ethereum_int_to_bigint(log.data[1]),
                        ethereum_int_to_bigint(log.data[2])))

\* logs.iter().filter_map(decode_swap_event).collect()
RECURSIVE filter_map_decode(_)
filter_map_decode(logs) ==
    IF logs = <<>> THEN <<>>
    ELSE LET d == decode_swap_event(Head(logs))
         IN  (IF d.some THEN <<d.val>> ELSE <<>>) \o filter_map_decode(Tail(logs))

\* ------------------------------------------------------------ LogFetcher
Log(topics, data) == [topics |-> topics, data |-> data]

\* topic words: the event signature, and four address words (two of them
\* with bits set above the address part)
W == [sig |-> 1, s |-> AddrModulus + 3, r |-> 7, a |-> (2 * AddrModulus) + 9, b |-> 12]

\* what the chain holds: the log lists of the blocks, by content
LogTable ==
    << <<>>,
       << Log(<<W.sig, W.a>>, <<Enc(5), Enc(-5)>>),
          Log(<<W.sig, W.a, W.b>>, <<Enc(-7), Enc(20)>>),
          Log(<<W.sig, W.b, W.a>>, <<Enc(4)>>),
          Log(<<W.sig, W.b, W.s, W.r>>, <<Enc(0), Enc(0), Enc(33)>>) >>,
       << Log(<<W.sig, W.r, W.s>>, <<>>) >>,
       << Log(<<W.sig, W.s, W.r>>, <<Enc(100), Enc(-50)>>) >>,
       << Log(<<W.sig, W.b, W.a>>, <<Enc(-1), Enc(2)>>),
          Log(<<W.sig>>, <<Enc(1), Enc(2)>>),
          Log(<<W.sig, W.a, W.b>>, <<Enc(3), Enc(-4)>>) >> >>

\* eth_getLogs filtered by block hash, pool address and the Swap topic
LogsOf(hash) == LogTable[(((2 * hash[1]) + hash[2]) % Len(LogTable)) + 1]

\* ----------------------------------------------------- PendingBlockStore
ConfirmedBlock(number, hash, events) ==
    [number |-> number, hash |-> hash, events |-> events]

Insert_keep_existing(pending_blocks, block_number, confirmed) ==
    [n \in (DOMAIN pending_blocks) \cup {block_number} |->
        IF n \in DOMAIN pending_blocks THEN pending_blocks[n] ELSE confirmed]

\* BTreeMap::insert: the record under the key is created or replaced
Insert(pending_blocks, block_number, confirmed) ==
    [n \in (DOMAIN pending_blocks) \cup {block_number} |->
        IF n = block_number THEN confirmed ELSE pending_blocks[n]]

Remove_nothing(pending_blocks, block_num) == pending_blocks

\* BTreeMap::remove
Remove(pending_blocks, block_num) ==
    [n \in (DOMAIN pending_blocks) \ {block_num} |-> pending_blocks[n]]

RECURSIVE Keys_descending(_)
Keys_descending(S) ==
    IF S = {} THEN <<>>
    ELSE LET m == CHOOSE x \in S : \A y \in S : x >= y
         IN  <<m>> \o Keys_descending(S \ {m})

\* BTreeMap::iter: the keys in ascending order
RECURSIVE Keys(_)
Keys(S) ==
    IF S = {} THEN <<>>
    ELSE LET m == CHOOSE x \in S : \A y \in S : x <= y
         IN  <<m>> \o Keys(S \ {m})

\* --------------------------------------------------- ConfirmationChecker
\* U64 subtraction: the uint crate panics on overflow in every build
CheckedSub(a, b) == IF a < b THEN None ELSE Some(a - b)

InSweep_off_by_one(block_num, confirmed_cutoff) == block_num <= confirmed_cutoff + 1

\* if block_num <= confirmed_cutoff
InSweep(block_num, confirmed_cutoff) == block_num <= confirmed_cutoff

HashMatches_unchecked(fetched_block, pending_block) == TRUE

\* fetched_block.hash != Some(pending_block.hash), negated
HashMatches(fetched_block, pending_block) ==
    fetched_block.hash = Some(pending_block.hash)

\* the answers fetch_block(number) can give: a transport error, no block,
\* a block without a hash, a block with the hash of one of the variants
Block(hash) == [hash |-> hash]
AnswerChoices == {<<"err", 0>>, <<"none", 0>>, <<"nohash", 0>>}
                     \cup {<<"block", v>> : v \in Variants}
fetch_block(block_number, c) ==
    CASE c[1] = "err" -> Err
      [] c[1] = "none" -> Ok(None)
      [] c[1] = "nohash" -> Ok(Some(Block(None)))
      [] OTHER -> Ok(Some(Block(Some(<<block_number, c[2]>>))))

Candidates(keys, confirmed_cutoff) ==
    {n \in keys : InSweep(n, confirmed_cutoff)}

Verdict_error_swallowed(answer, pending_block) ==
    IF ~answer.ok THEN "pending"
    ELSE IF ~answer.val.some THEN "pending"
    ELSE IF ~HashMatches(answer.val.val, pending_block) THEN "exit"
    ELSE "push"

Verdict_mismatch_skipped(answer, pending_block) ==
    IF ~answer.ok THEN "err"
    ELSE IF ~answer.val.some THEN "pending"
    ELSE IF ~HashMatches(answer.val.val, pending_block) THEN "pending"
    ELSE "push"

Verdict_no_block_released(answer, pending_block) ==
    IF ~answer.ok THEN "err"
    ELSE IF ~answer.val.some THEN "push"
    ELSE IF ~HashMatches(answer.val.val, pending_block) THEN "exit"
    ELSE "push"

Verdict_never_released(answer, pending_block) ==
    IF ~answer.ok THEN "err"
    ELSE IF ~answer.val.some THEN "pending"
    ELSE IF ~HashMatches(answer.val.val, pending_block) THEN "exit"
    ELSE "pending"

\* one visit of the loop body to a record inside the sweep
Verdict(answer, pending_block) ==
    IF ~answer.ok THEN "err"
    ELSE IF ~answer.val.some THEN "pending"
    ELSE IF ~HashMatches(answer.val.val, pending_block) THEN "exit"
    ELSE "push"

\* the for loop of check_confirmed_blocks over the remaining keys; asked is
\* the list of the canonical fetches issued, with their answers
RECURSIVE SweepLoop(_, _, _, _, _, _)
SweepLoop(keys, pending_blocks, confirmed_cutoff, oracle, to_print, asked) ==
    IF keys = <<>> THEN [outcome |-> "ok", to_print |-> to_print, asked |-> asked]
    ELSE LET block_num == Head(keys)
             rest == Tail(keys)
         IN  IF ~InSweep(block_num, confirmed_cutoff)
             THEN SweepLoop(rest, pending_blocks, confirmed_cutoff, oracle, to_print, asked)
             ELSE LET answer == oracle[block_num]
                      asked2 == Append(asked, <<block_num, answer>>)
                      v == Verdict(answer, pending_blocks[block_num])
                  IN  CASE v = "err" ->
                             [outcome |-> "err", to_print |-> to_print, asked |-> asked2]
                        [] v = "exit" ->
                             [outcome |-> "exit", to_print |-> to_print, asked |-> asked2]
                        [] v = "pending" ->
                             SweepLoop(rest, pending_blocks, confirmed_cutoff, oracle,
                                       to_print, asked2)
                        [] OTHER ->
                             SweepLoop(rest, pending_blocks, confirmed_cutoff, oracle,
                                       Append(to_print, block_num), asked2)

check_confirmed_blocks(pending_blocks, confirmed_cutoff, oracle) ==
    SweepLoop(Keys(DOMAIN pending_blocks), pending_blocks, confirmed_cutoff, oracle,
              <<>>, <<>>)

RECURSIVE ReportLoop_silent(_, _, _)
ReportLoop_silent(to_print, pending_blocks, printed) ==
    IF to_print = <<>> THEN [pending |-> pending_blocks, printed |-> printed]
    ELSE ReportLoop_silent(Tail(to_print), Remove(pending_blocks, Head(to_print)), printed)

\* for block_num in to_print { if let Some(cb) = remove(..) { print(cb) } }
RECURSIVE ReportLoop(_, _, _)
ReportLoop(to_print, pending_blocks, printed) ==
    IF to_print = <<>> THEN [pending |-> pending_blocks, printed |-> printed]
    ELSE LET block_num == Head(to_print)
         IN  IF block_num \in DOMAIN pending_blocks
             THEN ReportLoop(Tail(to_print), Remove(pending_blocks, block_num),
                             Append(printed, pending_blocks[block_num]))
             ELSE ReportLoop(Tail(to_print), pending_blocks, printed)

\* -------------------------------------------------------------- Pipeline
Header(hash, number) == [hash |-> hash, number |-> number]
CompleteHeaders == {Header(Some(<<n, v>>), Some(n)) : n \in Nums, v \in Variants}
IncompleteHeaders ==
    {Header(None, Some(MaxNum)), Header(Some(<<MaxNum, 1>>), None), Header(None, None)}
Headers == CompleteHeaders \cup IncompleteHeaders

Outcome(pending, status, cause, log_fetch, asked, printed) ==
    [pending |-> pending, status |-> status, cause |-> cause,
     log_fetch |-> log_fetch, asked |-> asked, printed |-> printed]

\* the sweep and the report loop, once the header's record is stored
SweepAndReport(pending1, confirmed_cutoff, oracle) ==
    LET res == check_confirmed_blocks(pending1, confirmed_cutoff, oracle)
    IN  CASE res.outcome = "err" ->
               Outcome(pending1, "err_exit", "block_fetch_err", "ok", res.asked, <<>>)
          [] res.outcome = "exit" ->
               Outcome(pending1, "reorg_exit", "reorg", "ok", res.asked, <<>>)
          [] OTHER ->
               LET out == ReportLoop(res.to_print, pending1, <<>>)
               IN  Outcome(out.pending, "running", "none", "ok", res.asked, out.printed)

\* the body of the while loop for one header
LoopBody(pending_blocks, block, log_ok, oracle) ==
    IF ~block.hash.some
    THEN Outcome(pending_blocks, "panic", "unwrap_none", "not_issued", <<>>, <<>>)
    ELSE IF ~log_ok
    THEN Outcome(pending_blocks, "err_exit", "log_fetch_err", "err", <<>>, <<>>)
    ELSE LET events == filter_map_decode(LogsOf(block.hash.val))
         IN  IF ~block.number.some
             THEN Outcome(pending_blocks, "panic", "unwrap_none", "ok", <<>>, <<>>)
             ELSE LET block_number == block.number.val
                      confirmed == ConfirmedBlock(block_number, block.hash.val, events)
                      pending1 == Insert(pending_blocks, block_number, confirmed)
                      confirmed_cutoff == CheckedSub(block_number, ConfirmationDepth)
                  IN  IF ~confirmed_cutoff.some
                      THEN Outcome(pending1, "panic", "overflow", "ok", <<>>, <<>>)
                      ELSE SweepAndReport(pending1, confirmed_cutoff.val, oracle)

\* the records whose canonical block the sweep for this header may ask for
SweepDomain(pending_blocks, block, log_ok) ==
    IF block.hash.some /\ log_ok /\ block.number.some
          /\ CheckedSub(block.number.val, ConfirmationDepth).some
    THEN Candidates((DOMAIN pending_blocks) \cup {block.number.val},
                    CheckedSub(block.number.val, ConfirmationDepth).val)
    ELSE {}

\* the status with which the process ends
ExitCode(st) ==
    CASE st = "ok_exit" -> 0
      [] st = "err_exit" -> 1
      [] st = "reorg_exit" -> 1
      [] st = "panic" -> 101
      [] OTHER -> -1

VARIABLES pending_blocks, status, cause, head, log_fetch, asked, reported,
          processed, inorder,
          call, ret,      \* a call of one of the pure functions and its result
          settled         \* the canonical chain has stopped changing

vars == <<pending_blocks, status, cause, head, log_fetch, asked, reported,
          processed, inorder, call, ret, settled>>

NoCall == [f |-> "none", a |-> 0, b |-> 0]
NoRet == [done |-> FALSE, int |-> 0, str |-> <<>>, dir |-> ""]

InitPipeline ==
    /\ pending_blocks = <<>>
    /\ status = "running"
    /\ cause = "none"
    /\ head = Header(None, None)
    /\ log_fetch = "not_issued"
    /\ asked = <<>>
    /\ reported = <<>>
    /\ processed = 0
    /\ inorder = TRUE
    /\ settled = FALSE

Init ==
    /\ InitPipeline
    /\ call = NoCall
    /\ ret = NoRet

\* block_stream.next() yields Some(Ok(block)): one pass through the loop body
ProcessHeader(block, log_ok, choice) ==
    /\ \E out \in {LoopBody(pending_blocks, block, log_ok,
                             [n \in DOMAIN choice |-> fetch_block(n, choice[n])])} :
           /\ pending_blocks' = out.pending
           /\ status' = out.status
           /\ cause' = out.cause
           /\ log_fetch' = out.log_fetch
           /\ asked' = out.asked
           /\ reported' = reported \o
                 [i \in 1..Len(out.printed) |->
                     [block |-> out.printed[i], at |-> processed + 1]]
    /\ head' = block
    /\ processed' = processed + 1
    /\ inorder' = (inorder /\ block = Header(Some(<<processed + 1, 1>>), Some(processed + 1)))
    /\ UNCHANGED <<call, ret, settled>>

\* block_stream.next() yields None: the loop ends and main returns Ok(())
StreamEnd ==
    /\ status = "running"
    /\ status' = "ok_exit"
    /\ cause' = "stream_end"
    /\ UNCHANGED <<pending_blocks, head, log_fetch, asked, reported, processed, inorder,
                   call, ret, settled>>

\* block_stream.next() yields Some(Err(e)): the while-let pattern does not
\* match, the loop ends and main returns Ok(())
StreamError ==
    /\ status = "running"
    /\ status' = "ok_exit"
    /\ cause' = "stream_err"
    /\ UNCHANGED <<pending_blocks, head, log_fetch, asked, reported, processed, inorder,
                   call, ret, settled>>

\* the stream delivers a header; the collaborators answer as they choose
OnHeader ==
    /\ status = "running"
    /\ processed < MaxHeaders
    /\ \E block \in Headers, log_ok \in BOOLEAN :
          \E choice \in [SweepDomain(pending_blocks, block, log_ok) -> AnswerChoices] :
             ProcessHeader(block, log_ok, choice)

Next ==
    \/ OnHeader
    \/ StreamEnd
    \/ StreamError

Spec == Init /\ [][Next]_vars

\* ------------------------------------------------------ the live stream
\* Headers keep arriving with strictly increasing numbers, no fetch fails,
\* and the canonical chain settles: from then on fetch_block answers with
\* the stored hash.  The stream of the model stops at MaxNum, so its last
\* header stands for the headers that arrive after the chain has settled.
LiveAnswers(D) ==
    IF settled
    THEN {[m \in D |-> <<"block", pending_blocks[m].hash[2]>>]}
    ELSE [D -> {c \in AnswerChoices : c[1] # "err"}]

LiveHeader ==
    /\ status = "running"
    /\ \E n \in Nums, v \in Variants :
          /\ head.number.some => n > head.number.val
          /\ n = MaxNum => settled
          /\ head' = Header(Some(<<n, v>>), Some(n))
          /\ \E choice \in LiveAnswers(SweepDomain(pending_blocks, Header(Some(<<n, v>>), Some(n)), TRUE)) :
                ProcessHeader(Header(Some(<<n, v>>), Some(n)), TRUE, choice)

Settle ==
    /\ ~settled
    /\ settled' = TRUE
    /\ UNCHANGED <<pending_blocks, status, cause, head, log_fetch, asked, reported,
                   processed, inorder, call, ret>>

NextLive ==
    \/ LiveHeader
    \/ Settle

\* The stream has a next header to deliver and the loop takes it: under
\* NextLive the steps that add one to processed are the LiveHeader steps, and
\* LiveHeader is enabled exactly when this guard holds (LoopBody is total).
HeaderArrives ==
    /\ status = "running"
    /\ \E n \in Nums :
          /\ head.number.some => n > head.number.val
          /\ n = MaxNum => settled
    /\ processed' = processed + 1

\* headers keep arriving while the process runs, and the chain settles
SpecLive == Init /\ [][NextLive]_vars /\ WF_processed(HeaderArrives) /\ WF_vars(Settle)

\* ------------------------------------------------- the pure functions
\* one call of ethereum_int_to_bigint, convert_amount or the direction
\* test, on arguments drawn from the bounded sets
Amounts == (-MaxAmount)..MaxAmount
Calls ==
    {[f |-> "to_bigint", a |-> w, b |-> 0] : w \in 0..(WordModulus - 1)}
        \cup {[f |-> "convert", a |-> x, b |-> d] : x \in Amounts, d \in 0..MaxDecimals}
        \cup {[f |-> "direction", a |-> x, b |-> y] :
                  x \in (-MaxSide)..MaxSide, y \in (-MaxSide)..MaxSide}

InitPure ==
    /\ InitPipeline
    /\ call \in Calls
    /\ ret = NoRet

pipeline_vars == <<pending_blocks, status, cause, head, log_fetch, asked, reported,
                   processed, inorder, settled>>

CallToBigint ==
    /\ call.f = "to_bigint" /\ ~ret.done
    /\ ret' = [ret EXCEPT !.done = TRUE, !.int = ethereum_int_to_bigint(call.a)]
    /\ UNCHANGED <<call, pipeline_vars>>

CallConvert ==
    /\ call.f = "convert" /\ ~ret.done
    /\ ret' = [ret EXCEPT !.done = TRUE, !.str = convert_amount(call.a, call.b)]
    /\ UNCHANGED <<call, pipeline_vars>>

CallDirection ==
    /\ call.f = "direction" /\ ~ret.done
    /\ ret' = [ret EXCEPT !.done = TRUE, !.dir = direction(call.a, call.b)]
    /\ UNCHANGED <<call, pipeline_vars>>

NextPure ==
    \/ CallToBigint
    \/ CallConvert
    \/ CallDirection

SpecPure == InitPure /\ [][NextPure]_vars

\* ------------------------------------------------------------ properties
HeaderStep == processed' = processed + 1
AskedNums(a) == {a[j][1] : j \in DOMAIN a}
Matching(hash) == Ok(Some(Block(Some(hash))))
IsMismatch(answer, hash) == answer.ok /\ answer.val.some /\ answer.val.val.hash # Some(hash)
ReportedNow(n) ==
    \E i \in DOMAIN reported' : i > Len(reported) /\ reported'[i].block.number = n
Halted(st) == (status = st) => (vars' = vars)

\* C1: a record is reported only in the processing of a header H with
\* number <= H - 5 and after a canonical fetch, in that same sweep, whose
\* hash equals the record's stored hash.
C1_ReportOnlyAfterMatch ==
    \A i \in DOMAIN reported :
        reported[i].at = processed =>
            /\ head.number.some
            /\ reported[i].block.number + ConfirmationDepth <= head.number.val
            /\ \E j \in DOMAIN asked :
                  asked[j] = <<reported[i].block.number, Matching(reported[i].block.hash)>>

C1_Witness ==
    /\ status = "running"
    /\ \E i \in DOMAIN reported : reported[i].at = processed
    /\ \E j \in DOMAIN asked : asked[j][2] = Ok(None)

\* C2: a canonical hash that differs from the stored hash of a swept record
\* halts the pipeline in the reorg state: nothing is reported from that
\* sweep, no record is removed, no later header is processed.
C2_ReorgHalts ==
    [][/\ (HeaderStep /\ \E j \in DOMAIN asked' :
                            /\ asked'[j][1] \in DOMAIN pending_blocks
                            /\ IsMismatch(asked'[j][2], pending_blocks[asked'[j][1]].hash))
          => /\ status' = "reorg_exit"
             /\ ExitCode(status') # 0
             /\ reported' = reported
             /\ \A n \in DOMAIN pending_blocks :
                   n \in DOMAIN pending_blocks'
                     /\ (head'.number # Some(n) => pending_blocks'[n] = pending_blocks[n])
       /\ Halted("reorg_exit")]_vars

C2_Witness ==
    /\ status = "reorg_exit"
    /\ Len(asked) = 2
    /\ asked[1][1] \in DOMAIN pending_blocks
    /\ asked[1][2] = Matching(pending_blocks[asked[1][1]].hash)
    /\ IsMismatch(asked[2][2], pending_blocks[asked[2][1]].hash)

\* C3 (as claimed): a swept record whose canonical fetch returns no block is
\* kept unchanged, not reported, not an error, and is fetched again on the
\* sweep of every later header whose cutoff covers it.
C3_NoBlockKept ==
    HeaderStep =>
        \A j \in DOMAIN asked' :
            asked'[j][2] = Ok(None) =>
                LET n == asked'[j][1]
                IN  /\ n \in DOMAIN pending_blocks
                    /\ n \in DOMAIN pending_blocks'
                    /\ pending_blocks'[n] = pending_blocks[n]
                    /\ ~ReportedNow(n)
                    /\ (status' # "running" => j < Len(asked'))

SweepRan == HeaderStep /\ log_fetch' = "ok" /\ head'.number.some
                /\ head'.number.val >= ConfirmationDepth

C3_Original ==
    [][/\ C3_NoBlockKept
       /\ SweepRan =>
             \A j \in DOMAIN asked :
                 (/\ status = "running"
                  /\ asked[j][2] = Ok(None)
                  /\ asked[j][1] + ConfirmationDepth <= head'.number.val)
                     => asked[j][1] \in AskedNums(asked')]_vars

\* C3 (amended): ... and is fetched again on the sweep of every later header
\* whose cutoff covers it, unless that sweep is ended before it reaches the
\* record by a failed fetch or a hash mismatch at a lower-numbered record.
C3_NoBlockRetried ==
    [][/\ C3_NoBlockKept
       /\ SweepRan =>
             \A n \in DOMAIN pending_blocks :
                 n + ConfirmationDepth <= head'.number.val
                     => \/ n \in AskedNums(asked')
                        \/ /\ status' \in {"err_exit", "reorg_exit"}
                           /\ asked' # <<>>
                           /\ asked'[Len(asked')][1] < n]_vars

C3_Witness ==
    /\ status = "running"
    /\ processed = 3
    /\ DOMAIN pending_blocks = {ConfirmationDepth, 2 * ConfirmationDepth,
                                (2 * ConfirmationDepth) + 1}
    /\ head.number = Some((2 * ConfirmationDepth) + 1)
    /\ asked = <<<<ConfirmationDepth, Ok(None)>>>>

\* C4: in the processing of a header with number H, a stored record with
\* number > H - 5 is not fetched, not removed, not reported, and its hash
\* and events are the same afterwards.
C4_AboveCutoffUntouched ==
    [][(HeaderStep /\ log_fetch' = "ok" /\ head'.number.some) =>
          LET H == head'.number.val
          IN  \A n \in (DOMAIN pending_blocks) \cup {H} :
                  n > H - ConfirmationDepth =>
                      /\ n \notin AskedNums(asked')
                      /\ ~ReportedNow(n)
                      /\ n \in DOMAIN pending_blocks'
                      /\ (n # H => pending_blocks'[n] = pending_blocks[n])
                      /\ (n = H => pending_blocks'[n].hash = head'.hash.val)]_vars

C4_Witness ==
    /\ status = "running"
    /\ asked # <<>>
    /\ \E n \in DOMAIN pending_blocks :
          n # head.number.val /\ n > head.number.val - ConfirmationDepth

\* C5 (as claimed): fed the headers of blocks 1..6 in order, the pipeline
\* does not abort and emits nothing during headers 1..5, and after header 6,
\* with the canonical block 1 matching, has emitted exactly the report of
\* block 1 and holds exactly blocks 2..6.
C5_EndToEnd ==
    /\ (inorder /\ processed \in 1..ConfirmationDepth /\ log_fetch = "ok")
          => /\ cause \in {"none", "stream_end", "stream_err"}
             /\ reported = <<>>
             /\ DOMAIN pending_blocks = 1..processed
    /\ (inorder /\ processed = ConfirmationDepth + 1 /\ log_fetch = "ok"
          /\ asked = <<<<1, Matching(<<1, 1>>)>>>>)
          => /\ cause \in {"none", "stream_end", "stream_err"}
             /\ Len(reported) = 1
             /\ reported[1].block =
                   ConfirmedBlock(1, <<1, 1>>, <<SwapEvent(3, 7, 100, -50)>>)
             /\ DOMAIN pending_blocks = 2..(ConfirmationDepth + 1)

\* C6 (as claimed): a header without a hash or without a number is skipped:
\* the buffer is unchanged, no log fetch and no sweep is run, nothing is
\* reported, and the pipeline goes on with the next header.
C6_IncompleteHeaderSkipped ==
    [][(HeaderStep /\ (~head'.hash.some \/ ~head'.number.some)) =>
          /\ pending_blocks' = pending_blocks
          /\ log_fetch' = "not_issued"
          /\ asked' = <<>>
          /\ reported' = reported
          /\ status' = "running"]_vars

\* C7 (as claimed): the exit status is zero only when the header stream has
\* ended; a reorg, a failed fetch or an error item on the stream end the
\* process with a non-zero status.
C7_ZeroOnlyOnStreamEnd ==
    /\ (status # "running" /\ ExitCode(status) = 0) => cause = "stream_end"
    /\ (status # "running"
          /\ cause \in {"reorg", "log_fetch_err", "block_fetch_err", "stream_err"})
          => ExitCode(status) # 0

\* C8 (as claimed): over the whole run the numbers of the reports are
\* strictly ascending.
C8_AscendingOverRun ==
    \A i, j \in DOMAIN reported :
        i < j => reported[i].block.number < reported[j].block.number

\* C8 (amended): the reports emitted in the processing of one header are
\* strictly ascending in block number.
C8_AscendingPerSweep ==
    \A i, j \in DOMAIN reported :
        (i < j /\ reported[i].at = reported[j].at)
            => reported[i].block.number < reported[j].block.number

C8_Witness ==
    \E i, j \in DOMAIN reported : i < j /\ reported[i].at = reported[j].at

\* C9: a failed log fetch or canonical fetch ends the pipeline with an
\* error: nothing is reported for that header, the header's record is not
\* inserted when the log fetch failed, and no later header is processed.
C9_FetchFailureAborts ==
    [][/\ (HeaderStep /\ log_fetch' = "err")
          => /\ status' = "err_exit"
             /\ pending_blocks' = pending_blocks
             /\ reported' = reported
             /\ asked' = <<>>
       /\ (HeaderStep /\ \E j \in DOMAIN asked' : ~asked'[j][2].ok)
          => /\ status' = "err_exit"
             /\ reported' = reported
       /\ (status' = "err_exit" => ExitCode(status') # 0)
       /\ Halted("err_exit")]_vars

C9_Witness ==
    /\ status = "err_exit"
    /\ cause = "block_fetch_err"
    /\ Len(asked) = 2
    /\ asked[1][2] = Matching(pending_blocks[asked[1][1]].hash)
    /\ ~asked[2][2].ok

\* C10: a log with fewer than 3 topics or with data that does not decode as
\* two integers is dropped without aborting: the header's record is
\* inserted, with exactly the decodable logs as events, in emission order.
Decodable(log) == Len(log.topics) >= 3 /\ Len(log.data) >= 2
EventOf(log) ==
    SwapEvent(log.topics[2] % AddrModulus, log.topics[3] % AddrModulus,
              IF log.data[1] < SignBit THEN log.data[1] ELSE log.data[1] - WordModulus,
              IF log.data[2] < SignBit THEN log.data[2] ELSE log.data[2] - WordModulus)
DecodableEvents(logs) ==
    LET good == SelectSeq(logs, Decodable)
    IN  [i \in 1..Len(good) |-> EventOf(good[i])]

C10_MalformedLogDropped ==
    [][(HeaderStep /\ log_fetch' = "ok" /\ head'.number.some) =>
          LET H == head'.number.val
          IN  /\ H \in DOMAIN pending_blocks'
              /\ pending_blocks'[H] =
                    ConfirmedBlock(H, head'.hash.val,
                                   DecodableEvents(LogsOf(head'.hash.val)))
              /\ cause' \in {"none", "overflow", "block_fetch_err", "reorg"}]_vars

C10_Witness ==
    /\ status = "running"
    /\ head.number.some
    /\ head.number.val \in DOMAIN pending_blocks
    /\ LET logs == LogsOf(head.hash.val)
           events == pending_blocks[head.number.val].events
       IN  /\ \E i \in DOMAIN logs : Len(logs[i].topics) < MinTopics
           /\ \E i \in DOMAIN logs : Len(logs[i].data) < AbiInts
           /\ Len(events) >= 2
           /\ Len(events) < Len(logs)

C12_SignRetained ==
    (call.f = "convert" /\ ret.done) =>
        /\ ret.str # <<>>
        /\ (call.a < 0 <=> ret.str[1] = "-")

\* reading strings of digits
IsDigit(c) == \E i \in DOMAIN DigitChars : DigitChars[i] = c
DigitVal(c) == (CHOOSE i \in DOMAIN DigitChars : DigitChars[i] = c) - 1
RECURSIVE DigitsValue(_)
DigitsValue(str) ==
    IF str = <<>> THEN 0
    ELSE (DigitsValue(SubSeq(str, 1, Len(str) - 1)) * 10) + DigitVal(str[Len(str)])
AllDigits(str) == \A i \in DOMAIN str : IsDigit(str[i])

\* str is the plain decimal string of the integer k
PlainInteger(str, k) ==
    /\ str # <<>>
    /\ (k < 0 <=> str[1] = "-")
    /\ LET body == IF str[1] = "-" THEN Tail(str) ELSE str
       IN  /\ body # <<>>
           /\ AllDigits(body)
           /\ (Len(body) > 1 => body[1] # "0")
           /\ DigitsValue(body) = (IF k < 0 THEN -k ELSE k)

\* C13: for every integer k and decimal count d, convert_amount(k * 10^d, d)
\* has no '.' and is the plain decimal string of k.
C13_WholeAmountPlain ==
    (call.f = "convert" /\ ret.done /\ call.a % (10 ^ call.b) = 0) =>
        LET k == CHOOSE x \in Amounts : x * (10 ^ call.b) = call.a
        IN  /\ \A i \in DOMAIN ret.str : ret.str[i] # "."
            /\ PlainInteger(ret.str, k)

C13_Witness ==
    /\ call.f = "convert"
    /\ ret.done
    /\ call.b = MaxDecimals
    /\ call.a < 0
    /\ call.a % (10 ^ call.b) = 0

\* C14: the direction is asset0-to-asset1 exactly when amount0 > 0 and
\* amount1 < 0, asset1-to-asset0 exactly when amount0 < 0 and amount1 > 0,
\* and "Unknown" for every other combination of signs.
C14_DirectionTotal ==
    (call.f = "direction" /\ ret.done) =>
        LET fwd == call.a > 0 /\ call.b < 0
            back == call.a < 0 /\ call.b > 0
        IN  /\ ret.dir \in {"DAI -> USDC", "USDC -> DAI", "Unknown"}
            /\ (ret.dir = "DAI -> USDC" <=> fwd)
            /\ (ret.dir = "USDC -> DAI" <=> back)
            /\ (ret.dir = "Unknown" <=> (~fwd /\ ~back))

C14_Witness ==
    /\ call.f = "direction"
    /\ ret.done
    /\ call.a = 0
    /\ call.b < 0
    /\ ret.dir = "Unknown"

\* the string reads as the decimal number amount / 10^decimals
ReadsAs(str, amount, decimals) ==
    /\ str # <<>>
    /\ LET neg == str[1] = "-"
           body == IF neg THEN Tail(str) ELSE str
           dots == {i \in DOMAIN body : body[i] = "."}
           dot == IF dots = {} THEN Len(body) + 1 ELSE CHOOSE i \in dots : TRUE
           ip == SubSeq(body, 1, dot - 1)
           fp == SubSeq(body, dot + 1, Len(body))
           magnitude == (DigitsValue(ip) * (10 ^ decimals))
                           + (DigitsValue(fp) * (10 ^ (decimals - Len(fp))))
       IN  /\ Cardinality(dots) <= 1
           /\ ip # <<>> /\ AllDigits(ip) /\ AllDigits(fp)
           /\ Len(fp) <= decimals
           /\ amount = (IF neg THEN -magnitude ELSE magnitude)

\* C20 (as claimed): the output of convert_amount reads as amount / 10^d, and
\* two different amounts never render to the same string at the same d.
C20_ValuePreserving ==
    (call.f = "convert" /\ ret.done) =>
        /\ ReadsAs(ret.str, call.a, call.b)
        /\ \A x \in Amounts : x # call.a => convert_amount(x, call.b) # ret.str

NewReports == {i \in DOMAIN reported' : i > Len(reported)}

\* C15: last write wins: a record is stored under its own number; after a
\* header (n, h) is processed without abort the record under n is wholly the
\* one of h, with the events decoded from the logs of h; and a report is
\* always the record the buffer held for that number, never a replaced one.
C15_LastWriteWins ==
    [][/\ \A k \in DOMAIN pending_blocks' : pending_blocks'[k].number = k
       /\ (HeaderStep /\ status' = "running") =>
             LET n == head'.number.val
                 h == head'.hash.val
             IN  /\ n \in DOMAIN pending_blocks'
                 /\ pending_blocks'[n] = ConfirmedBlock(n, h, DecodableEvents(LogsOf(h)))
                 /\ \A i \in NewReports :
                       /\ reported'[i].block.number # n
                       /\ reported'[i].block.number \in DOMAIN pending_blocks
                       /\ reported'[i].block = pending_blocks[reported'[i].block.number]]_vars

C15_Witness ==
    /\ status = "running"
    /\ processed = 2
    /\ reported = <<>>
    /\ Cardinality(DOMAIN pending_blocks) = 1
    /\ pending_blocks[head.number.val].hash = head.hash.val

\* C16: a record leaves the buffer only in a header's processing that saw a
\* matching canonical hash for its number, and is reported in that same
\* step; the only other change to an entry is an overwrite by a header of
\* the same number.
C16_RemovedOnlyWhenConfirmed ==
    [][\A n \in DOMAIN pending_blocks :
          /\ n \notin DOMAIN pending_blocks' =>
                /\ HeaderStep
                /\ \E j \in DOMAIN asked' : asked'[j] = <<n, Matching(pending_blocks[n].hash)>>
                /\ \E i \in NewReports : reported'[i].block = pending_blocks[n]
          /\ (n \in DOMAIN pending_blocks' /\ pending_blocks'[n] # pending_blocks[n]) =>
                /\ HeaderStep
                /\ head'.number = Some(n)]_vars

C16_Witness ==
    /\ status = "running"
    /\ \E i \in DOMAIN reported :
          /\ reported[i].at = processed
          /\ reported[i].block.number \notin DOMAIN pending_blocks
    /\ pending_blocks # <<>>

\* C18 (as claimed): a header with number H < 5 is processed normally: the
\* cutoff computation does not abort, the record is stored, no record is a
\* candidate, nothing is reported and the pipeline goes on.
C18_LowHeaderProcessed ==
    [][(HeaderStep /\ log_fetch' = "ok" /\ head'.number.some
          /\ head'.number.val < ConfirmationDepth) =>
             /\ status' = "running"
             /\ head'.number.val \in DOMAIN pending_blocks'
             /\ asked' = <<>>
             /\ reported' = reported]_vars

\* C19 (as claimed): no block number is reported more than once in a run.
C19_ReportedOnce ==
    \A i, j \in DOMAIN reported :
        i # j => reported[i].block.number # reported[j].block.number

\* C19 (amended): within one header's processing no number is reported
\* twice, and every report takes its record out of the buffer, so a number
\* is reported again only after the stream has delivered that height again.
C19_ReportConsumesRecord ==
    [][\A i \in NewReports :
          LET n == reported'[i].block.number
          IN  /\ n \in DOMAIN pending_blocks
              /\ n \notin DOMAIN pending_blocks'
              /\ \A j \in NewReports : j # i => reported'[j].block.number # n]_vars

C19_Witness ==
    \E i, j \in DOMAIN reported :
        /\ i < j
        /\ reported[i].block.number = reported[j].block.number
        /\ reported[i].at < reported[j].at

WasReported(n) ==
    /\ n \notin DOMAIN pending_blocks
    /\ \E i \in DOMAIN reported : reported[i].block.number = n

====
